---- MODULE Spec2Model ----
(***************************************************************************)
(* Defect tracking of SAMoS (src/utils/Defects.py): class Defects, its     *)
(* entry point getDefects and the three charge algorithms.                 *)
(*                                                                         *)
(* Representation.                                                         *)
(*  - A field sample (a row of conf.nval or conf.vhat) is a unit vector in *)
(*    the xy-plane, (cos(a*pi/6), sin(a*pi/6), 0), stored as its lattice   *)
(*    angle a in 0..11.                                                    *)
(*  - The unit normal of a point is (0,0,1) or (0,0,-1), stored as its z   *)
(*    component.                                                           *)
(*  - The value of a dot or triple product of such vectors is always       *)
(*    sin(j*pi/6) for one j in -3..3; the value is stored as that j.  On   *)
(*    this encoding x -> -x is j -> -j, arcsin is j -> j lattice steps,    *)
(*    arccos is j -> 3 - j lattice steps and the order of the values is    *)
(*    the order of the j.                                                  *)
(*  - Angles are in lattice steps of pi/6; charges are in halves (the      *)
(*    stored number is twice the charge of the code); coordinates of a     *)
(*    mean are in units of 1/MeanDenom.                                    *)
(***************************************************************************)
EXTENDS Integers, Sequences, FiniteSets, TLC

VARIABLES geom, rval, nval, vhat, normal, LoopList,
          defects_n, defects_v, numdefect_n, numdefect_v,
          outcome, symarg, vfarg, loopCharges, hadDefects

snapshot == <<geom, rval, nval, vhat, normal, LoopList>>
vars == <<geom, rval, nval, vhat, normal, LoopList,
          defects_n, defects_v, numdefect_n, numdefect_v,
          outcome, symarg, vfarg, loopCharges, hadDefects>>

-----------------------------------------------------------------------------
(* Bounds of the model *)

\* number of points of a general snapshot
NumPoints == 3
\* largest number of loops in the loop list of a general snapshot
MaxLoops == 2
\* longest loop of the family of evenly rotating fields
MaxCanonLen == 6

-----------------------------------------------------------------------------
(* Numbers *)

\* np.pi in lattice steps
HalfTurn == 6
QuarterTurn == HalfTurn \div 2
FullTurn == 2 * HalfTurn
\* common denominator of the coordinates of np.mean
MeanDenom == 420

\* the coordinate that stands for NaN: no mean takes this value
nan == -(MeanDenom * MeanDenom)

Abs(x) == IF x < 0 THEN -x ELSE x

\* np.sign
sign(x) == IF x > 0 THEN 1 ELSE IF x < 0 THEN -1 ELSE 0

\* int(round(num/den)) of Python 2: halves are rounded away from zero
RoundDiv(num, den) == sign(num) * ((2 * Abs(num) + den) \div (2 * den))

\* np.round of num/den: halves are rounded to the even integer
RoundHalfEven(num, den) ==
  LET q == num \div den
      r == num % den
  IN IF 2 * r < den THEN q
     ELSE IF 2 * r > den THEN q + 1
     ELSE IF q % 2 = 0 THEN q ELSE q + 1

\* np.sqrt of a square n whose root lies in lo..hi, by bisection
RECURSIVE SqrtIn(_, _, _)
SqrtIn(n, lo, hi) ==
  IF lo >= hi THEN lo
  ELSE LET mid == (lo + hi + 1) \div 2
       IN IF mid * mid <= n THEN SqrtIn(n, mid, hi) ELSE SqrtIn(n, lo, mid - 1)


-----------------------------------------------------------------------------
(* Vector algebra on the lattice *)

\* np.dot(u, w) of two field samples with lattice angles a and b
dot(a, b) ==
  LET d == (a - b) % FullTurn
      f == IF d > HalfTurn THEN FullTurn - d ELSE d
  IN QuarterTurn - f

\* z component of np.cross(u, w) of two field samples (x and y are 0)
cross(a, b) ==
  LET d == (b - a) % FullTurn
  IN IF d <= QuarterTurn THEN d
     ELSE IF d <= HalfTurn + QuarterTurn THEN HalfTurn - d
     ELSE d - FullTurn

\* np.arccos and np.arcsin of an encoded value, in lattice steps
arccos(j) == QuarterTurn - j
arcsin(j) == j

-----------------------------------------------------------------------------
(* The charge algorithms.  A result is [exc, ndefect, vdefect]: exc is the  *)
(* exception that ended the call, or "none".                                *)

NoCharge == [exc |-> "none", ndefect |-> 0, vdefect |-> 0]
Raised(e) == [exc |-> e, ndefect |-> 0, vdefect |-> 0]

\* ndefect=int(round(thetatot/(2*np.pi))), in halves
PolarCharge(thetatot) == 2 * RoundDiv(thetatot, FullTurn)

\* the loop of getDefectsPolar over thisLoop[i..], t0 the previous point
RECURSIVE PolarWalk(_, _, _, _, _)
PolarWalk(field, thisLoop, i, t0, thetatot) ==
  IF i > Len(thisLoop) THEN thetatot
  ELSE LET t == thisLoop[i]
           ctheta == dot(field[t], field[t0])
           stheta == normal[t] * cross(field[t], field[t0])
           theta == arccos(ctheta) * sign(stheta)
       IN PolarWalk(field, thisLoop, i + 1, t, thetatot + theta)

\* t0=thisLoop[-1] raises IndexError on an empty loop
getDefectsPolar(thisLoop, useVfield) ==
  IF Len(thisLoop) = 0 THEN Raised("IndexError")
  ELSE LET last == thisLoop[Len(thisLoop)]
       IN [exc |-> "none",
           ndefect |-> PolarCharge(PolarWalk(nval, thisLoop, 1, last, 0)),
           vdefect |-> IF useVfield
                       THEN PolarCharge(PolarWalk(vhat, thisLoop, 1, last, 0))
                       ELSE 0]

\* ndefect=-0.5*int(round(thetatot/(np.pi))), in halves
NematicChargeNoHalf(thetatot) == -2 * RoundDiv(thetatot, HalfTurn)
NematicCharge(thetatot) == -RoundDiv(thetatot, HalfTurn)

\* the loop of getDefectsNematic over thisLoop[i..], t0 the previous point.
\* The isnan guards never apply: no sample of the lattice is NaN.
RECURSIVE NematicWalk(_, _, _, _, _)
NematicWalk(field, thisLoop, i, t0, thetatot) ==
  IF i > Len(thisLoop) THEN thetatot
  ELSE LET t == thisLoop[i]
           ctheta == dot(field[t0], field[t])
           raw == normal[t] * cross(field[t0], field[t])
           stheta == IF Abs(raw) > QuarterTurn THEN sign(raw) * QuarterTurn
                     ELSE raw
           theta == arcsin(stheta * sign(ctheta))
       IN NematicWalk(field, thisLoop, i + 1, t, thetatot + theta)

getDefectsNematic(thisLoop, useVfield) ==
  IF Len(thisLoop) = 0 THEN Raised("IndexError")
  ELSE LET last == thisLoop[Len(thisLoop)]
       IN [exc |-> "none",
           ndefect |-> NematicCharge(NematicWalk(nval, thisLoop, 1, last, 0)),
           vdefect |-> IF useVfield
                       THEN NematicCharge(NematicWalk(vhat, thisLoop, 1, last, 0))
                       ELSE 0]

\* coord.append(nval[thisLoop[0],:]) reads the global name nval, which the
\* module does not define: the call raises NameError before anything else
getDefectsGoldenfeld(thisLoop, useVfield) == Raised("NameError")

SymTypes == {"polar", "nematic", "oldnematic", "smectic"}
Recognized == {"polar", "nematic", "oldnematic"}

\* the dispatch of getDefects on symtype
ChargeOf(symtype, thisLoop, useVfield) ==
  IF symtype = "oldnematic" THEN getDefectsGoldenfeld(thisLoop, useVfield)
  ELSE IF symtype = "polar" THEN getDefectsPolar(thisLoop, useVfield)
  ELSE IF symtype = "nematic" THEN getDefectsNematic(thisLoop, useVfield)
  ELSE NoCharge

-----------------------------------------------------------------------------
(* Geometry (conf.geom) and the centre of a defect *)

\* the displacement d folded into the periodic box of length L
MinImage(d, L) == d - L * RoundHalfEven(d, L)

\* conf.geom.ApplyPeriodic12(r1, r2): the minimum-image displacement from r1
\* to r2 in the periodic xy-box
ApplyPeriodic12(g, r1, r2) ==
  <<MinImage(r2[1] - r1[1], g.Lx), MinImage(r2[2] - r1[2], g.Ly), r2[3] - r1[3]>>

\* np.sqrt(rmval[0]**2+rmval[1]**2+rmval[2]**2)
norm(v) ==
  SqrtIn(v[1] * v[1] + v[2] * v[2] + v[3] * v[3], 0, Abs(v[1]) + Abs(v[2]) + Abs(v[3]))

\* conf.geom.UnitNormal, z component: (0,0,1) on a plane, r/|r| on a sphere
UnitNormal(g, r) == IF g.manifold = "sphere" THEN r[3] \div norm(r) ELSE 1

\* r0s=self.conf.rval[thisLoop]: indexing with a list of indices copies the rows
Gather(rv, thisLoop) == [i \in 1..Len(thisLoop) |-> rv[thisLoop[i]]]

\* r0s[1:,:]=ApplyPeriodic12(r0s[0,:],r0s[1:,:])+r0s[0,:] when geom.periodic
Unwrap(r0s) ==
  IF geom.periodic
  THEN [i \in 1..Len(r0s) |->
          IF i = 1 THEN r0s[1]
          ELSE LET dr == ApplyPeriodic12(geom, r0s[1], r0s[i])
               IN <<dr[1] + r0s[1][1], dr[2] + r0s[1][2], dr[3] + r0s[1][3]>>]
  ELSE r0s

RECURSIVE SumCoord(_, _, _)
SumCoord(r0s, k, i) == IF i = 0 THEN 0 ELSE r0s[i][k] + SumCoord(r0s, k, i - 1)

\* np.mean(r0s,axis=0), in units of 1/MeanDenom
mean(r0s) ==
  [k \in 1..3 |-> SumCoord(r0s, k, Len(r0s)) * (MeanDenom \div Len(r0s))]

\* rmval=rmval/rabs*self.conf.geom.R when the manifold is a sphere; 0/0 is nan
Project(rmval) ==
  IF geom.manifold = "sphere"
  THEN LET rabs == norm(rmval)
       IN IF rabs = 0 THEN <<nan, nan, nan>>
          ELSE [k \in 1..3 |-> (rmval[k] * geom.R * MeanDenom) \div rabs]
  ELSE rmval

\* the rows of r0s written through to the rows of conf.rval they came from
WriteThrough(rv, thisLoop, r0s) ==
  [p \in DOMAIN rv |->
     IF \E i \in 1..Len(thisLoop) : thisLoop[i] = p
     THEN r0s[CHOOSE i \in 1..Len(thisLoop) :
                 thisLoop[i] = p /\ \A j \in (i + 1)..Len(thisLoop) : thisLoop[j] # p]
     ELSE rv[p]]

\* conf.rval after the in-place unwrapping of r0s: r0s is a copy, so the
\* stored positions are what they were
rvalAfterUnwrap(rv, thisLoop, r0s) == rv

\* the centre without the periodic unwrapping
RawCentre(rv, thisLoop) == Project(mean(Gather(rv, thisLoop)))

\* "Construct the geometric centre of the defect"
GeometricCentre(rv, thisLoop) == Project(mean(Unwrap(Gather(rv, thisLoop))))

\* defbit=[ndefect]; defbit.extend(list(rmval))
defbit(charge, rmval) == <<charge, rmval[1], rmval[2], rmval[3]>>

-----------------------------------------------------------------------------
(* getDefects *)

\* self.defects_n=[] and self.defects_v=[] at the start of every call
ResetListKeep(old) == old
ResetList(old) == <<>>

\* self.numdefect_n=0 and self.numdefect_v=0 at the start of every call
ResetCountKeep(old) == old
ResetCount(old) == 0

\* abs(ndefect)>0
PresentPositive(charge) == charge > 0
Present(charge) == Abs(charge) > 0

\* the body of "for u in range(len(self.LoopList))" from loop u on.  acc holds
\* the instance's result fields, conf.rval, the (ndefect, vdefect) pairs the
\* algorithm returned so far and the exception that ended the call.
RECURSIVE ForLoops(_, _, _, _)
ForLoops(u, symtype, useVfield, acc) ==
  IF u > Len(LoopList) THEN acc
  ELSE
    LET thisLoop == LoopList[u]
        got == ChargeOf(symtype, thisLoop, useVfield)
    IN IF got.exc # "none" THEN [acc EXCEPT !.exc = got.exc]
       ELSE
         LET hasN == Present(got.ndefect)
             r0sN == Unwrap(Gather(acc.rval, thisLoop))
             rvN == IF hasN THEN rvalAfterUnwrap(acc.rval, thisLoop, r0sN)
                    ELSE acc.rval
             afterN ==
               IF hasN
               THEN [acc EXCEPT
                       !.defects_n = Append(@, defbit(got.ndefect,
                                                      GeometricCentre(acc.rval, thisLoop))),
                       !.numdefect_n = @ + 1,
                       !.rval = rvN]
               ELSE acc
             hasV == useVfield /\ Present(got.vdefect)
             r0sV == Unwrap(Gather(afterN.rval, thisLoop))
             afterV ==
               IF hasV
               THEN [afterN EXCEPT
                       !.defects_v = Append(@, defbit(got.vdefect,
                                                      GeometricCentre(afterN.rval, thisLoop))),
                       !.numdefect_v = @ + 1,
                       !.rval = rvalAfterUnwrap(afterN.rval, thisLoop, r0sV)]
               ELSE afterN
         IN ForLoops(u + 1, symtype, useVfield,
                     [afterV EXCEPT
                        !.charges = Append(@, <<got.ndefect, got.vdefect>>)])

\* Defects.getDefects(symtype, useVfield), the whole call
getDefects(symtype, useVfield) ==
  LET start == [defects_n |-> ResetList(defects_n),
                defects_v |-> ResetList(defects_v),
                numdefect_n |-> ResetCount(numdefect_n),
                numdefect_v |-> ResetCount(numdefect_v),
                rval |-> rval,
                charges |-> <<>>,
                exc |-> "none"]
  IN \E end \in {ForLoops(1, symtype, useVfield, start)} :
     /\ defects_n' = end.defects_n
     /\ defects_v' = end.defects_v
     /\ numdefect_n' = end.numdefect_n
     /\ numdefect_v' = end.numdefect_v
     /\ rval' = end.rval
     /\ loopCharges' = end.charges
     /\ outcome' = IF end.exc = "none" THEN "returned" ELSE end.exc
     /\ symarg' = symtype
     /\ vfarg' = useVfield
     /\ hadDefects' = (defects_n # <<>> \/ defects_v # <<>>)
     /\ UNCHANGED <<geom, nval, vhat, normal, LoopList>>

-----------------------------------------------------------------------------
(* Snapshots *)

Points == 0..(NumPoints - 1)
BoxL == 2 * NumPoints

Plane == [manifold |-> "plane", periodic |-> FALSE, R |-> 0, Lx |-> BoxL, Ly |-> BoxL]
PeriodicPlane == [manifold |-> "plane", periodic |-> TRUE, R |-> 0, Lx |-> BoxL, Ly |-> BoxL]
Sphere == [manifold |-> "sphere", periodic |-> FALSE, R |-> 2, Lx |-> 0, Ly |-> 0]

\* a coordinate folded into the box [-L/2, L/2)
Wrap(c, L) == ((c + L \div 2) % L) - L \div 2

\* points in a row along x, alternating in y, the row starting at offset o
Row(o, n) == [p \in 0..(n - 1) |-> <<Wrap(o + p, BoxL), Wrap(o + (p % 2), BoxL), 0>>]

\* points at the two poles of the sphere, those of south at the south pole
Poles(south, n) ==
  [p \in 0..(n - 1) |-> <<0, 0, IF p \in south THEN -Sphere.R ELSE Sphere.R>>]

\* the geometries and the positions of a general snapshot
Placements ==
  {<<Plane, Row(0, NumPoints)>>}
  \cup {<<PeriodicPlane, Row(o, NumPoints)>> : o \in {0, NumPoints - 1}}
  \cup {<<Sphere, Poles(south, NumPoints)>> : south \in {{}, {0}}}

\* a field that turns by step from point to point, with a kink at the last point
Turning(o, step, kink, n) ==
  [p \in 0..(n - 1) |->
     (o + step * p + (IF p = n - 1 THEN kink ELSE 0)) % FullTurn]

Directors ==
  {Turning(0, step, kink, NumPoints) : step \in {0, 2, 3, 4}, kink \in {0, 3}}

\* the velocity directions: uniform, or the director's angle doubled
Velocities(nv) == {[p \in DOMAIN nv |-> (m * nv[p]) % FullTurn] : m \in {0, 2}}

Prefix(k) == [i \in 1..k |-> i - 1]
Reverse(s) == [i \in 1..Len(s) |-> s[Len(s) + 1 - i]]

\* the loops of a general snapshot: the ring of all points in both
\* orientations, and malformed loops of 0 and 2 points
LoopChoices == {Prefix(NumPoints), Reverse(Prefix(NumPoints)), Prefix(2), Prefix(0)}

LoopLists == UNION {[1..k -> LoopChoices] : k \in 0..MaxLoops}

\* Defects.__init__
Constructed ==
  /\ numdefect_n = 0
  /\ numdefect_v = 0
  /\ defects_n = <<>>
  /\ defects_v = <<>>
  /\ outcome = "idle"
  /\ symarg = "none"
  /\ vfarg = FALSE
  /\ loopCharges = <<>>
  /\ hadDefects = FALSE

Init ==
  /\ \E pl \in Placements :
       /\ geom = pl[1]
       /\ rval = pl[2]
       /\ normal = [p \in Points |-> UnitNormal(pl[1], pl[2][p])]
  /\ nval \in Directors
  /\ vhat \in Velocities(nval)
  /\ LoopList \in LoopLists
  /\ Constructed

\* one loop over n points whose director turns by sn and whose velocity
\* direction turns by 2*sn from point to point, on a plane
InitCanon ==
  /\ \E n \in 3..MaxCanonLen, sn \in 0..(FullTurn - 1), rev \in BOOLEAN :
       /\ geom = Plane
       /\ rval = [p \in 0..(n - 1) |-> <<p, 0, 0>>]
       /\ normal = [p \in 0..(n - 1) |-> UnitNormal(Plane, <<p, 0, 0>>)]
       /\ nval = Turning(0, sn, 0, n)
       /\ vhat = Turning(0, 2 * sn, 0, n)
       /\ LoopList = <<IF rev THEN Reverse(Prefix(n)) ELSE Prefix(n)>>
  /\ Constructed

Next == \E symtype \in SymTypes, useVfield \in BOOLEAN : getDefects(symtype, useVfield)

Spec == Init /\ [][Next]_vars
SpecCanon == InitCanon /\ [][Next]_vars

-----------------------------------------------------------------------------
(* Properties *)

Returned == outcome = "returned"
Called == outcome # "idle"
Flat == geom = Plane /\ \A p \in DOMAIN normal : normal[p] = 1

\* the indices of the loops whose charge number k (1 orientation, 2 velocity),
\* as the algorithm returned it in the last call, is not zero, in loop order
NonZero(k) ==
  SelectSeq([u \in 1..Len(loopCharges) |-> u], LAMBDA u : loopCharges[u][k] # 0)

\* the coordinates of a defect record
PositionOf(record) == <<record[2], record[3], record[4]>>

\* the representative of d modulo L nearest to 0 (one only, unless d is half
\* a box length away from a multiple of L)
Nearest(d, L) == CHOOSE e \in (-(L \div 2))..(L \div 2) : (e - d) % L = 0

\* the mean, in units of 1/MeanDenom, of the points of a loop after every
\* point but the first is replaced by the first plus its minimum-image
\* displacement from the first
UnwrappedCentroid(loop) ==
  LET first == rval[loop[1]]
      pt(i) == IF i = 1 THEN first
               ELSE <<first[1] + Nearest(rval[loop[i]][1] - first[1], geom.Lx),
                      first[2] + Nearest(rval[loop[i]][2] - first[2], geom.Ly),
                      rval[loop[i]][3]>>
  IN [k \in 1..3 |->
        SumCoord([i \in 1..Len(loop) |-> pt(i)], k, Len(loop)) * (MeanDenom \div Len(loop))]

\* the mean of the stored, wrapped coordinates of a loop
WrappedCentroid(loop) ==
  [k \in 1..3 |->
     SumCoord([i \in 1..Len(loop) |-> rval[loop[i]]], k, Len(loop))
       * (MeanDenom \div Len(loop))]

\* some point of the loop lies across a periodic boundary from the first
Straddles(loop) ==
  \E i \in 2..Len(loop) :
    \/ Abs(rval[loop[i]][1] - rval[loop[1]][1]) * 2 > geom.Lx
    \/ Abs(rval[loop[i]][2] - rval[loop[1]][2]) * 2 > geom.Ly

\* the evenly turning field of the +1 vortex on the loop of 6 points
CanonicalVortex ==
  /\ Flat
  /\ LoopList = <<Prefix(6)>>
  /\ nval = Turning(0, 2, 0, 6)
\* C1: on a plane with normal (0,0,1), the loop [0,1,2,3,4,5] whose director
\* at point i is at angle i*2*pi/6 has Polar orientation charge +1.
C1_CanonicalVortexPlusOne ==
  (CanonicalVortex /\ Returned /\ symarg = "polar") => loopCharges[1][1] = 2
\* the state in which the Polar algorithm returned -1 for that loop
C1_VortexMinusOne ==
  CanonicalVortex /\ Returned /\ symarg = "polar" /\ loopCharges[1][1] = -2

\* C2: for the Polar and the Nematic algorithm, the charge of a loop traversed
\* in reverse order is the negation of the charge of the loop, for the
\* orientation field and, when it is tracked, the velocity field.
C2_ReversalNegates ==
  (Returned /\ symarg \in {"polar", "nematic"}) =>
    \A i, j \in 1..Len(LoopList) :
      LoopList[j] = Reverse(LoopList[i]) =>
        /\ loopCharges[j][1] = -loopCharges[i][1]
        /\ loopCharges[j][2] = -loopCharges[i][2]
\* a loop and its reverse whose Polar charges are not opposite
C2_ReversalKeptSign ==
  /\ Returned
  /\ symarg = "polar"
  /\ Len(LoopList) = 2
  /\ LoopList[2] = Reverse(LoopList[1])
  /\ loopCharges[2][1] # -loopCharges[1][1]

\* uniform fields on a non-empty list of loops of at least 3 points
UniformLoops ==
  /\ \A p, q \in DOMAIN nval : nval[p] = nval[q] /\ vhat[p] = vhat[q]
  /\ LoopList # <<>>
  /\ \A u \in 1..Len(LoopList) : Len(LoopList[u]) >= 3
\* C3: when every director is the same vector and every velocity direction
\* is the same vector, a call with 'polar', 'nematic' or 'oldnematic' on loops
\* of at least 3 points returns, with charge 0 for every loop and no record.
C3_UniformFieldZeroCharge ==
  (UniformLoops /\ Called /\ symarg \in Recognized) =>
    /\ Returned
    /\ Len(loopCharges) = Len(LoopList)
    /\ \A u \in 1..Len(loopCharges) : loopCharges[u] = <<0, 0>>
    /\ defects_n = <<>> /\ defects_v = <<>>
\* the call with 'oldnematic' on a uniform field ended in NameError
C3_UniformOldNematicRaises ==
  UniformLoops /\ symarg = "oldnematic" /\ outcome = "NameError"

\* C4: a call with a symmetry other than 'polar', 'nematic' and 'oldnematic'
\* returns, with both sequences empty and both counts 0, whatever the loops,
\* the velocity flag and the results the instance held before.
C4_UnknownSymmetryEmpty ==
  (Called /\ symarg \notin Recognized) =>
    /\ Returned
    /\ defects_n = <<>> /\ defects_v = <<>>
    /\ numdefect_n = 0 /\ numdefect_v = 0
\* an unknown symmetry, called on an instance that held defects
C4_UnknownAfterDefects ==
  Returned /\ symarg \notin Recognized /\ hadDefects /\ LoopList # <<>>

\* the accumulators of a freshly constructed instance at the start of a call
FreshStart ==
  [defects_n |-> <<>>, defects_v |-> <<>>, numdefect_n |-> 0, numdefect_v |-> 0,
   rval |-> rval, charges |-> <<>>, exc |-> "none"]
\* C5: whatever calls came before, a call leaves the sequences, the counts
\* and the outcome that the same call leaves on a freshly constructed
\* instance with the same snapshot.
C5_SameAsFresh ==
  Called =>
    LET fresh == ForLoops(1, symarg, vfarg, FreshStart)
    IN /\ defects_n = fresh.defects_n
       /\ defects_v = fresh.defects_v
       /\ numdefect_n = fresh.numdefect_n
       /\ numdefect_v = fresh.numdefect_v
       /\ outcome = (IF fresh.exc = "none" THEN "returned" ELSE fresh.exc)
\* a call that found defects on an instance that already held defects
C5_RecomputedAfterDefects ==
  Returned /\ hadDefects /\ numdefect_n > 0 /\ numdefect_v > 0

\* the director that turns by pi over the loop of 6 points
CanonicalHalf ==
  /\ Flat
  /\ LoopList = <<Prefix(6)>>
  /\ nval = Turning(0, 1, 0, 6)
\* C6: on a plane with normal (0,0,1), the loop [0,1,2,3,4,5] whose director
\* at point i is at angle i*pi/6 has a Nematic orientation charge of absolute
\* value 0.5.
C6_CanonicalHalfDefect ==
  (CanonicalHalf /\ Returned /\ symarg = "nematic") => Abs(loopCharges[1][1]) = 1
\* the state in which the Nematic algorithm recorded that loop's defect
C6_HalfDefectFound ==
  CanonicalHalf /\ Returned /\ symarg = "nematic" /\ numdefect_n = 1

\* C7: when the loop list holds a loop of fewer than 3 points, a call with a
\* recognized symmetry ends in an error, and no charge is computed for such a
\* loop.
C7_MalformedLoopFails ==
  (Called /\ symarg \in Recognized
     /\ \E u \in 1..Len(LoopList) : Len(LoopList[u]) < 3) =>
    /\ ~Returned
    /\ \A u \in 1..Len(loopCharges) : Len(LoopList[u]) >= 3
\* a call that computed a charge for a loop of 2 points and returned
C7_ShortLoopCharged ==
  /\ Returned
  /\ symarg \in {"polar", "nematic"}
  /\ \E u \in 1..Len(loopCharges) : Len(LoopList[u]) = 2

\* C8: no call changes the stored positions, the director field, the
\* velocity-direction field, the cached normals, the loop list or the
\* geometry.
C8_SnapshotReadOnly == [][snapshot' = snapshot]_vars
\* a call on a periodic manifold that recorded a defect of a loop whose
\* gathered positions the unwrapping changed
C8_UnwrappedOnPeriodic ==
  /\ Returned
  /\ geom.periodic
  /\ \E u \in 1..Len(loopCharges) :
       /\ loopCharges[u][1] # 0
       /\ Unwrap(Gather(rval, LoopList[u])) # Gather(rval, LoopList[u])

\* C9: on a periodic manifold the position of every record is the mean of
\* its loop's points after each point but the first is replaced by the first
\* plus its minimum-image displacement from the first; for a loop that
\* straddles a periodic boundary it is not the mean of the wrapped
\* coordinates.
C9_UnwrappedCentroid ==
  (Returned /\ geom.periodic) =>
    /\ Len(defects_n) = Len(NonZero(1))
    /\ Len(defects_v) = IF vfarg THEN Len(NonZero(2)) ELSE 0
    /\ \A k \in 1..Len(defects_n) :
         LET loop == LoopList[NonZero(1)[k]]
         IN /\ PositionOf(defects_n[k]) = UnwrappedCentroid(loop)
            /\ Straddles(loop) => PositionOf(defects_n[k]) # WrappedCentroid(loop)
    /\ \A k \in 1..Len(defects_v) :
         LET loop == LoopList[NonZero(2)[k]]
         IN /\ PositionOf(defects_v[k]) = UnwrappedCentroid(loop)
            /\ Straddles(loop) => PositionOf(defects_v[k]) # WrappedCentroid(loop)
\* a record of a loop of at least 3 points that straddles the boundary
C9_StraddlingDefect ==
  /\ Returned
  /\ geom.periodic
  /\ \E k \in 1..Len(defects_n) :
       /\ Len(LoopList[NonZero(1)[k]]) >= 3
       /\ Straddles(LoopList[NonZero(1)[k]])

\* the records the loops with a non-zero charge number k give, in loop order
Filtered(k) ==
  SelectSeq([u \in 1..Len(LoopList) |-> u],
            LAMBDA u : LET got == ChargeOf(symarg, LoopList[u], vfarg)
                       IN (IF k = 1 THEN got.ndefect ELSE got.vdefect) # 0)
ExpectedRecords(k) ==
  [i \in 1..Len(Filtered(k)) |->
     LET loop == LoopList[Filtered(k)[i]]
         got == ChargeOf(symarg, loop, vfarg)
     IN defbit(IF k = 1 THEN got.ndefect ELSE got.vdefect,
               Project(mean(Unwrap(Gather(rval, loop)))))]
\* C10: after a call with a recognized symmetry returns, the orientation
\* sequence holds, in loop order, one record for each loop whose orientation
\* charge is not zero, each with that loop's charge and centre, and the
\* orientation count is its length; the same holds for the velocity field when
\* the flag is set, and the velocity sequence is empty with count 0 when not.
C10_OrderedFilter ==
  (Returned /\ symarg \in Recognized) =>
    /\ defects_n = ExpectedRecords(1)
    /\ numdefect_n = Len(defects_n)
    /\ vfarg => (defects_v = ExpectedRecords(2) /\ numdefect_v = Len(defects_v))
    /\ ~vfarg => (defects_v = <<>> /\ numdefect_v = 0)
\* two loops with different non-zero charges recorded in loop order, beside a
\* velocity field that has a loop without a defect
C10_TwoOrderedRecords ==
  /\ Returned
  /\ vfarg
  /\ Len(defects_n) = 2
  /\ defects_n[1][1] # defects_n[2][1]
  /\ Len(defects_v) < Len(LoopList)

====
